---- MODULE Spec2Model ----
(***************************************************************************)
(* A model of jira_to_gitlab_issues_import.py: the start-up identity check *)
(* of GitLabImport.__init__, delete_issues, run_import, the recursive      *)
(* __import_issue (with its explicit call stack), the milestone resolver,  *)
(* the attachment substitution map and the link pass, as main runs them;   *)
(* and one call of __multiple_replace on a text of characters.             *)
(*                                                                         *)
(* The destination (GitLab) is modelled by what its calls return: created  *)
(* issues get the next free iid, milestones are listed by exact title, a   *)
(* create call either succeeds or raises, an upload either succeeds or     *)
(* answers "not ok", a link creation either succeeds or raises a           *)
(* GitlabCreateError.                                                      *)
(***************************************************************************)
EXTENDS Integers, Sequences, FiniteSets, TLC

\* ------------------------------------------------------------------ bounds
NumIssues == 3
MaxRefs == 2
MaxMilestoneRefs == 3
MaxAttachments == 2
MaxComments == 1
MaxUsers == 2
MaxOldIssues == 1
MaxLines == 2

\* ------------------------------------------------------- program constants
\* ImportConfig._USER_NAME_MAP: Jira display name -> GitLab login
USER_NAME_MAP == [n \in {"Display Name", "Display2 Name2"} |->
                    IF n = "Display Name" THEN "login" ELSE "login2"]
\* ImportConfig._GITLAB_DEFAULT_USER
GITLAB_DEFAULT_USER == "root"
\* The class object GitLabUser, the initial value of __gitlab_default_user
GitLabUserClass == "<class GitLabUser>"
\* Python's None
PyNone == "None"

\* ------------------------------------------------------------ input universe
Ids == 1..NumIssues
\* an issue id that some issue refers to and that is not in the imported set
OutsideId == NumIssues + 1
AllIds == Ids \cup {OutsideId}

DisplayNames == {"Display Name", "Display2 Name2", "Other Name"}
Logins == {"login", "login2", GITLAB_DEFAULT_USER}

\* Source milestones (JiraMilestone id and name): two ids share a name.
SrcMilestones == { [id |-> 1, name |-> "Sprint 1"],
                   [id |-> 2, name |-> "Sprint 1"],
                   [id |-> 3, name |-> "Sprint 2"] }
MilestoneNames == {m.name : m \in SrcMilestones}

\* Attachment file names, as their characters: the first is a prefix of the second.
Filenames == {"shot", "shot.png", "log.txt"}
FileChars(f) == IF f = "shot" THEN <<"s", "h", "o", "t">>
                ELSE IF f = "shot.png" THEN <<"s", "h", "o", "t", ".", "p", "n", "g">>
                ELSE <<"l", "o", "g", ".", "t", "x", "t">>

\* ------------------------------------------------------------------ helpers
Put(h, k, v) == [x \in (DOMAIN h) \cup {k} |-> IF x = k THEN v ELSE h[x]]
Range(s) == {s[i] : i \in DOMAIN s}
Last(s) == s[Len(s)]
EmptyMap == [x \in {} |-> 0]

\* ------------------------------------------------------------ input scenarios
\* A JiraIssue as parsed by JiraIssue.__init__ (parent is optional: a sequence
\* of length 0 or 1) and completed by __retrieve_attachments_and_comments.
EmptyIssue == [parent |-> <<>>, inward |-> <<>>, outward |-> <<>>,
               milestones |-> <<>>, attachments |-> <<>>, ncomments |-> 0,
               reporter |-> "Display Name"]
BaseIssues == [i \in Ids |-> EmptyIssue]

RefSlots == Ids \X {"parent", "inward", "outward"} \X AllIds
AddRef(iss, s, k, d) ==
    IF k = "parent"
    THEN IF iss[s].parent = <<>> THEN [iss EXCEPT ![s].parent = <<d>>] ELSE iss
    ELSE IF k = "inward" THEN [iss EXCEPT ![s].inward = Append(@, d)]
    ELSE [iss EXCEPT ![s].outward = Append(@, d)]

RECURSIVE WithRefs(_)
WithRefs(n) ==
    IF n = 0 THEN {BaseIssues}
    ELSE LET P == WithRefs(n - 1)
         IN  P \cup {AddRef(g, r[1], r[2], r[3]) : g \in P, r \in RefSlots}

RECURSIVE WithMilestones(_)
WithMilestones(n) ==
    IF n = 0 THEN {BaseIssues}
    ELSE LET P == WithMilestones(n - 1)
         IN  P \cup {[g EXCEPT ![i].milestones = Append(@, m)] :
                        g \in P, i \in Ids, m \in SrcMilestones}

RECURSIVE WithAttachments(_)
WithAttachments(n) ==
    IF n = 0 THEN {BaseIssues}
    ELSE LET P == WithAttachments(n - 1)
         IN  P \cup {[g EXCEPT ![i].attachments = Append(@, f)] :
                        g \in P, i \in Ids, f \in Filenames}

RECURSIVE WithComments(_, _)
WithComments(S, n) ==
    IF n = 0 THEN S
    ELSE LET P == WithComments(S, n - 1)
         IN  P \cup {[g EXCEPT ![i].ncomments = @ + 1] : g \in P, i \in Ids}

WithReporters == [Ids -> [parent : {<<>>}, inward : {<<>>}, outward : {<<>>},
                          milestones : {<<>>}, attachments : {<<>>},
                          ncomments : {0}, reporter : DisplayNames]]

RECURSIVE UserLists(_)
UserLists(n) ==
    IF n = 0 THEN {<<>>}
    ELSE LET P == UserLists(n - 1)
         IN  P \cup {Append(u, d) : u \in P, d \in DisplayNames}


\* ---------------------------------------------------------------------- state
VARIABLES
    \* inputs: the Jira project, the GitLab project and the configuration
    issues,            \* Jira.__jira_issues: id -> JiraIssue (ordered by id)
    jiraUsers,         \* Jira.__jira_users: display names
    members,           \* GitLabImport.__gitlab_users: logins of the project members
    projectOk,         \* GitLabImport.__project is not None
    premium,           \* ImportConfig._GITLAB_PREMIUM
    \* the program
    phase,             \* "startup", "delete_issues", "deleting", "run_import",
                       \* "import", "link", "done"; "markup" for the translator
    resetAnswer,       \* what was typed at the prompt of delete_issues
    importAnswer,      \* what was typed at the prompt of run_import
    userIdx,           \* position of the loop over _jira_users in __init__
    defaultUser,       \* GitLabImport.__gitlab_default_user
    replaceDict,       \* GitLabImport.__replace_user_dict (insertion ordered)
    hash,              \* GitLabImport.__jira_gitlab_issues_hash
    msHash,            \* GitLabImport.__jira_gitlab_milestone_hash
    index,             \* Jira.__jira_issue_index
    stack,             \* the activations of __import_issue, innermost last
    imported,          \* the counter of __import_issues
    linked,            \* the counter of __link_imported_issues
    linkQueue,         \* the __create_link calls left for the current issue
    \* the destination
    gitlabIssues,      \* created issues; the iid is the position
    gitlabMilestones,  \* milestones of the project; the id is the position
    uploads,           \* number of files uploaded (each has its own url)
    oldIssues,         \* issues the project holds from before the run
    deletedIssues,     \* issue.delete() calls that succeeded
    deletedMilestones, \* milestone.delete() calls that succeeded
    \* one call of __multiple_replace
    srcLines,          \* the lines of the text it is given
    dictionary,        \* the substitution dictionary it is given
    txt,               \* the local t
    stage,             \* the rule group it is about to apply
    \* history
    createCalls,       \* id -> number of issues.create calls made for it
    skips,             \* ids whose __import_issue returned at "already imported"
    cycleHits,         \* ids met in progress (mapping 0) during a descent
    linkLog,           \* the destination calls of the link pass, in order
    asked,             \* display names the start-up asked "Continue?" about
    aborted            \* an exception (or quit) ended the run

inputs == <<issues, jiraUsers, members, projectOk, premium>>
reset == <<resetAnswer, oldIssues, deletedIssues, deletedMilestones>>
markup == <<srcLines, dictionary, txt, stage>>
history == <<createCalls, skips, cycleHits, linkLog, asked>>
vars == <<issues, jiraUsers, members, projectOk, premium, phase, userIdx,
          defaultUser, replaceDict, hash, msHash, index, stack, imported, linked,
          linkQueue, gitlabIssues, gitlabMilestones, uploads, createCalls, skips,
          cycleHits, linkLog, asked, aborted, resetAnswer, importAnswer,
          oldIssues, deletedIssues, deletedMilestones, srcLines, dictionary,
          txt, stage>>

\* ------------------------------------------------------------ identity mapper
\* __retrieve_gitlab_users: the default user is set only when it is a member.
RetrieveDefaultUser(ok, mem) ==
    IF ok /\ GITLAB_DEFAULT_USER \in mem THEN GITLAB_DEFAULT_USER ELSE GitLabUserClass

\* __map_jira_user(display_name=...): the member the table names, else the default.
MapJiraUser(name) ==
    IF name \in DOMAIN USER_NAME_MAP /\ USER_NAME_MAP[name] \in members
    THEN USER_NAME_MAP[name]
    ELSE defaultUser

\* Python truth value of what __map_jira_user returns: only None is false.
IsFalsy(v) == v = PyNone

\* x.login raises AttributeError on the class object GitLabUser.
HasLogin(u) == u # GitLabUserClass

\* ------------------------------------------------------------------- markup
Embed(f) == [t |-> "embed", file |-> f, url |-> 0]
Media(f, u) == [t |-> "media", file |-> f, url |-> u]

IsPrefix(a, b) == Len(a) <= Len(b) /\ SubSeq(b, 1, Len(a)) = a

\* Whether the pattern "!<key>[^!]*!" of __upload_attachment matches "!<f>!".
KeyMatches(key, f) == IsPrefix(FileChars(key), FileChars(f))

\* dict.update with one entry: an existing key keeps its place.
DictUpdate(d, key, u) ==
    IF \E j \in DOMAIN d : d[j].kind = "att" /\ d[j].key = key
    THEN [j \in DOMAIN d |-> IF d[j].kind = "att" /\ d[j].key = key
                              THEN [d[j] EXCEPT !.url = u] ELSE d[j]]
    ELSE Append(d, [kind |-> "att", key |-> key, login |-> "", url |-> u])

\* The dictionary loop of __multiple_replace on one token: the first entry, in
\* insertion order, whose pattern matches rewrites the marker; later patterns
\* no longer match the rewritten text.
Substitute(tok, d) ==
    LET hits == {j \in DOMAIN d : d[j].kind = "att" /\ KeyMatches(d[j].key, tok.file)}
    IN  IF tok.t = "embed" /\ hits # {}
        THEN LET j == CHOOSE x \in hits : \A y \in hits : x <= y
             IN  Media(d[j].key, d[j].url)
        ELSE tok

MultipleReplace(text, d) == [k \in DOMAIN text |-> Substitute(text[k], d)]

\* The description (and each comment body) of an issue embeds its attachments.
Description(iss) == [k \in DOMAIN iss.attachments |-> Embed(iss.attachments[k])]

\* __jira_users_replace_dict: one mention entry per Jira user.
RECURSIVE UsersReplaceDict(_)
UsersReplaceDict(us) ==
    IF us = <<>> THEN <<>>
    ELSE LET d == UsersReplaceDict(SubSeq(us, 1, Len(us) - 1))
             n == Last(us)
         IN  IF \E j \in DOMAIN d : d[j].key = n
             THEN d
             ELSE Append(d, [kind |-> "user", key |-> n,
                             login |-> MapJiraUser(n), url |-> 0])

\* ---------------------------------------------------------------------- Init
\* What all scenarios but the users scenario share: one Jira user, whom the
\* table maps to a member, and every login a member of the project.
PlainUsers ==
    /\ jiraUsers = <<"Display Name">>
    /\ members = Logins
    /\ projectOk = TRUE

\* Reference graphs: up to MaxRefs parent / inward / outward references between
\* the issues (cycles, self-references, repeated and outside ids included).
GraphScenario ==
    /\ issues \in WithRefs(MaxRefs)
    /\ PlainUsers
    /\ gitlabMilestones = <<>>
    /\ oldIssues = 0

\* The milestone lists of a project that has one milestone per title of pre, from
\* before the run.
OldMilestones(pre) ==
    {[k \in DOMAIN s |-> [title |-> s[k], created |-> FALSE]] :
        s \in {t \in [1..Cardinality(pre) -> pre] :
                 \A a, b \in DOMAIN t : a < b => t[a] # t[b]}}

\* Milestones: up to MaxMilestoneRefs milestone references, and a destination
\* project that already has milestones under some of the names.
MilestoneScenario ==
    /\ issues \in WithMilestones(MaxMilestoneRefs)
    /\ premium = FALSE
    /\ PlainUsers
    /\ \E pre \in SUBSET MilestoneNames : gitlabMilestones \in OldMilestones(pre)
    /\ oldIssues = 0

\* Attachments and comments.
AttachmentScenario ==
    /\ issues \in WithComments(WithAttachments(MaxAttachments), MaxComments)
    /\ premium = FALSE
    /\ PlainUsers
    /\ gitlabMilestones = <<>>
    /\ oldIssues = 0

\* Users: the Jira users, the reporters and the project members vary; the
\* project may be missing.
UserScenario ==
    /\ issues \in WithReporters
    /\ premium = FALSE
    /\ jiraUsers \in UserLists(MaxUsers)
    /\ \/ projectOk = TRUE /\ members \in (SUBSET Logins) \ {{}}
       \/ projectOk = FALSE /\ members = {}
    /\ gitlabMilestones = <<>>
    /\ oldIssues = 0

\* One reference, one milestone, or one attachment and one comment; the
\* project may hold issues and a milestone from before the run.
SmallScenario ==
    /\ issues \in WithRefs(1) \cup WithMilestones(1)
                     \cup WithComments(WithAttachments(1), 1)
    /\ premium = FALSE
    /\ PlainUsers
    /\ gitlabMilestones \in OldMilestones({}) \cup OldMilestones({"Sprint 1"})
    /\ oldIssues \in 0..MaxOldIssues

\* The content of the project before the run varies (issues, milestones, both
\* or none), and the project may be missing.
ResetScenario ==
    /\ issues \in WithMilestones(1) \cup WithComments(WithAttachments(1), 1)
    /\ premium = FALSE
    /\ jiraUsers = <<"Display Name">>
    /\ \/ projectOk = TRUE /\ members = Logins
       \/ projectOk = FALSE /\ members = {}
    /\ \E pre \in SUBSET MilestoneNames : gitlabMilestones \in OldMilestones(pre)
    /\ oldIssues \in 0..MaxOldIssues

\* No call of __multiple_replace is looked at.
NoText ==
    /\ srcLines = <<>>
    /\ dictionary = <<>>
    /\ txt = <<>>
    /\ stage = "idle"

\* The attributes of a new GitLabImport, and an untouched destination.
Fresh ==
    /\ userIdx = 0
    /\ resetAnswer = "none"
    /\ importAnswer = "none"
    /\ deletedIssues = 0
    /\ deletedMilestones = 0
    /\ defaultUser = RetrieveDefaultUser(projectOk, members)
    /\ replaceDict = <<>>
    /\ hash = EmptyMap
    /\ msHash = EmptyMap
    /\ index = 0
    /\ stack = <<>>
    /\ imported = 0
    /\ linked = 0
    /\ linkQueue = <<>>
    /\ gitlabIssues = <<>>
    /\ uploads = 0
    /\ createCalls = [i \in Ids |-> 0]
    /\ skips = {}
    /\ cycleHits = {}
    /\ linkLog = <<>>
    /\ asked = {}
    /\ aborted = FALSE

\* The state when GitLabImport.__init__ has fetched the project and its members.
Start ==
    /\ phase = "startup"
    /\ NoText
    /\ Fresh

\* Reference graphs under the configuration of the source (_GITLAB_PREMIUM = False).
Init == (SmallScenario \/ (GraphScenario /\ premium = FALSE)) /\ Start
\* Reference graphs with and without typed links.
InitLinks == (SmallScenario \/ (GraphScenario /\ premium \in BOOLEAN)) /\ Start
InitMilestones == (SmallScenario \/ MilestoneScenario) /\ Start
InitAttachments == (SmallScenario \/ AttachmentScenario) /\ Start
InitUsers == (SmallScenario \/ UserScenario) /\ Start
InitReset == (SmallScenario \/ ResetScenario) /\ Start

\* A variant in which the exception is swallowed and the caller goes on.
AbortIgnored ==
    /\ aborted' = TRUE
    /\ UNCHANGED <<phase, stack, linkQueue>>

\* An uncaught exception, or quit(): the process ends where it is.
Abort ==
    /\ phase' = "done"
    /\ aborted' = TRUE
    /\ stack' = <<>>
    /\ linkQueue' = <<>>

\* ------------------------------------------------------------------ prompts
\* What the operator may type at a "[y/n]" prompt.
Answers == {"YES", "n", ""}
\* str.lower on these answers
Lower(a) == IF a = "YES" THEN "yes" ELSE a

\* A variant that takes every answer for a yes.
AffirmativeAny(answer) == TRUE

\* "if answer.lower() not in ['y', 'yes']: return" (quit() at start-up)
Affirmative(answer) == Lower(answer) \in {"y", "yes"}

\* A variant that never finds the project missing.
ProjectMissingNever == FALSE

\* "if self.__project is None: return"
ProjectMissing == ~projectOk

\* ------------------------------------------------------------------ start-up
\* GitLabImport.__init__, one iteration of the loop over _jira_users.
CheckJiraUser ==
    /\ phase = "startup"
    /\ userIdx < Len(jiraUsers)
    /\ LET name == jiraUsers[userIdx + 1]
       IN  IF IsFalsy(MapJiraUser(name))
           THEN /\ asked' = asked \cup {name}
                /\ \E answer \in Answers :
                      IF Affirmative(answer)
                      THEN /\ userIdx' = userIdx + 1
                           /\ UNCHANGED <<phase, aborted, stack, linkQueue>>
                      ELSE Abort /\ UNCHANGED userIdx
           ELSE /\ userIdx' = userIdx + 1
                /\ UNCHANGED <<asked, phase, aborted, stack, linkQueue>>
    /\ UNCHANGED <<inputs, reset, markup, importAnswer, defaultUser, replaceDict, hash, msHash, index, imported,
                   linked, gitlabIssues, gitlabMilestones, uploads, createCalls,
                   skips, cycleHits, linkLog>>

\* GitLabImport.__init__ after the loop: __replace_user_dict is built, which reads
\* .login of what every Jira user maps to.
BuildReplaceDict ==
    /\ phase = "startup"
    /\ userIdx = Len(jiraUsers)
    /\ IF jiraUsers = <<>> \/ members = {}
       THEN /\ phase' = "delete_issues"
            /\ UNCHANGED <<replaceDict, aborted, stack, linkQueue>>
       ELSE IF \A k \in DOMAIN jiraUsers : HasLogin(MapJiraUser(jiraUsers[k]))
            THEN /\ replaceDict' = UsersReplaceDict(jiraUsers)
                 /\ phase' = "delete_issues"
                 /\ UNCHANGED <<aborted, stack, linkQueue>>
            ELSE Abort /\ UNCHANGED replaceDict
    /\ UNCHANGED <<inputs, reset, markup, importAnswer, userIdx, defaultUser, hash, msHash, index, imported,
                   linked, gitlabIssues, gitlabMilestones, uploads, history>>

\* ------------------------------------------------------------- delete_issues
\* delete_issues up to the confirmation: it returns without a project, without
\* issues in the project, and without an affirmative answer.
DeleteIssues ==
    /\ phase = "delete_issues"
    /\ IF ProjectMissing \/ oldIssues = 0
       THEN phase' = "run_import" /\ UNCHANGED resetAnswer
       ELSE \E answer \in Answers :
               /\ resetAnswer' = answer
               /\ phase' = IF Affirmative(answer) THEN "deleting" ELSE "run_import"
    /\ UNCHANGED <<inputs, markup, importAnswer, oldIssues, deletedIssues,
                   deletedMilestones, userIdx, defaultUser, replaceDict, hash,
                   msHash, index, stack, imported, linked, linkQueue, gitlabIssues,
                   gitlabMilestones, uploads, history, aborted>>

\* One iteration of "for issue in issues: issue.delete()"; a refused delete
\* raises.
DeleteIssue ==
    /\ phase = "deleting"
    /\ oldIssues > 0
    /\ \E deleted \in BOOLEAN :
          IF deleted
          THEN /\ oldIssues' = oldIssues - 1
               /\ deletedIssues' = deletedIssues + 1
               /\ UNCHANGED <<phase, aborted, stack, linkQueue>>
          ELSE Abort /\ UNCHANGED <<oldIssues, deletedIssues>>
    /\ UNCHANGED <<inputs, markup, importAnswer, resetAnswer, deletedMilestones,
                   userIdx, defaultUser, replaceDict, hash, msHash, index, imported,
                   linked, gitlabIssues, gitlabMilestones, uploads, history>>

\* The milestones are listed when the issues are gone; one iteration of
\* "for milestone in milestones: milestone.delete()", or the return.
DeleteMilestone ==
    /\ phase = "deleting"
    /\ oldIssues = 0
    /\ IF gitlabMilestones = <<>>
       THEN /\ phase' = "run_import"
            /\ UNCHANGED <<gitlabMilestones, deletedMilestones, aborted, stack,
                           linkQueue>>
       ELSE \E deleted \in BOOLEAN :
               IF deleted
               THEN /\ gitlabMilestones' = Tail(gitlabMilestones)
                    /\ deletedMilestones' = deletedMilestones + 1
                    /\ UNCHANGED <<phase, aborted, stack, linkQueue>>
               ELSE Abort /\ UNCHANGED <<gitlabMilestones, deletedMilestones>>
    /\ UNCHANGED <<inputs, markup, importAnswer, resetAnswer, oldIssues,
                   deletedIssues, userIdx, defaultUser, replaceDict, hash, msHash,
                   index, imported, linked, gitlabIssues, uploads, history>>

\* ---------------------------------------------------------------- run_import
\* run_import up to the confirmation: nothing happens without a project or
\* without an affirmative answer.
RunImport ==
    /\ phase = "run_import"
    /\ IF ProjectMissing \/ NumIssues = 0
       THEN phase' = "done" /\ UNCHANGED importAnswer
       ELSE \E answer \in Answers :
               /\ importAnswer' = answer
               /\ phase' = IF Affirmative(answer) THEN "import" ELSE "done"
    /\ UNCHANGED <<inputs, reset, markup, userIdx, defaultUser, replaceDict, hash, msHash, index,
                   stack, imported, linked, linkQueue, gitlabIssues,
                   gitlabMilestones, uploads, history, aborted>>

\* ------------------------------------------------------------ __import_issue
Top == stack[Len(stack)]
Pop == SubSeq(stack, 1, Len(stack) - 1)
SetTop(f) == [stack EXCEPT ![Len(stack)] = f]

\* A variant that never finds an id in the mapping (the entry test left out).
AlreadyImportedNever(id) == FALSE

\* A variant that takes every id for imported.
AlreadyImportedAlways(id) == TRUE

\* A variant that returns only for an id whose import is in progress.
AlreadyImportedInProgressOnly(id) == id \in DOMAIN hash /\ hash[id] = 0

\* "if jira_issue.id in self.__jira_gitlab_issues_hash.keys(): return"
AlreadyImported(id) == id \in DOMAIN hash

\* A variant that descends into the parent first, then inward, then outward.
LinkedIssuesParentFirst(iss) == iss.parent \o iss.inward \o iss.outward

\* A variant that leaves the parent out of the descent.
LinkedIssuesNoParent(iss) == iss.inward \o iss.outward

\* linked_issues = inward + outward, then the parent appended
LinkedIssues(iss) == iss.inward \o iss.outward \o iss.parent

\* The activation of __import_issue(issue id) right after the sentinel is set.
NewFrame(id) ==
    [id |-> id, pc |-> "links", linked |-> LinkedIssues(issues[id]),
     msLeft |-> <<>>, notesLeft |-> 0, desc |-> <<>>,
     footer |-> [parent |-> <<>>, blocked |-> <<>>, related |-> <<>>],
     uploaded |-> <<>>, msId |-> 0, iid |-> 0, started |-> Len(gitlabIssues)]

\* A variant that writes no sentinel on entry (the mapping is written only at
\* the end of the import of the issue).
EnterWithoutSentinel(id, callers) ==
    /\ stack' = Append(callers, [id |-> id, pc |-> "links",
           linked |-> issues[id].inward \o issues[id].outward \o issues[id].parent,
           msLeft |-> <<>>, notesLeft |-> 0, desc |-> <<>>,
           footer |-> [parent |-> <<>>, blocked |-> <<>>, related |-> <<>>],
           uploaded |-> <<>>, msId |-> 0, iid |-> 0, started |-> Len(gitlabIssues)])
    /\ UNCHANGED hash

\* Entry of __import_issue for an id that is not in the mapping: the in-progress
\* sentinel 0 is written before anything else.
Enter(id, callers) ==
    /\ hash' = Put(hash, id, 0)
    /\ stack' = Append(callers, NewFrame(id))

\* __import_issues: one iteration of the loop, with the entry of __import_issue.
NextIssue ==
    /\ phase = "import"
    /\ stack = <<>>
    /\ IF index < NumIssues
       THEN LET id == index + 1
            IN  /\ index' = index + 1
                /\ IF AlreadyImported(id)
                   THEN /\ imported' = imported + 1
                        /\ skips' = skips \cup {id}
                        /\ UNCHANGED <<hash, stack>>
                   ELSE /\ Enter(id, stack)
                        /\ UNCHANGED <<imported, skips>>
                /\ UNCHANGED phase
       ELSE /\ phase' = "link"
            /\ index' = 0
            /\ UNCHANGED <<hash, stack, imported, skips>>
    /\ UNCHANGED <<inputs, reset, markup, importAnswer, userIdx, defaultUser, replaceDict, msHash, linked,
                   linkQueue, gitlabIssues, gitlabMilestones, uploads, createCalls,
                   cycleHits, linkLog, asked, aborted>>

\* One iteration of "for id_ in linked_issues": an id without a mapping entry
\* is looked up (_find_jira_issue gives None outside the set) and imported first.
Descend ==
    /\ phase = "import"
    /\ stack # <<>>
    /\ Top.pc = "links"
    /\ Top.linked # <<>>
    /\ LET id_ == Head(Top.linked)
           rest == SetTop([Top EXCEPT !.linked = Tail(@)])
       IN  IF id_ \in DOMAIN hash
           THEN /\ stack' = rest
                /\ cycleHits' = IF hash[id_] = 0 THEN cycleHits \cup {id_} ELSE cycleHits
                /\ UNCHANGED hash
           ELSE IF id_ \in Ids
                THEN Enter(id_, rest) /\ UNCHANGED cycleHits
                ELSE stack' = rest /\ UNCHANGED <<hash, cycleHits>>
    /\ UNCHANGED <<inputs, reset, markup, importAnswer, phase, userIdx, defaultUser, replaceDict, msHash, index,
                   imported, linked, linkQueue, gitlabIssues, gitlabMilestones,
                   uploads, createCalls, skips, linkLog, asked, aborted>>

\* The loop over the attachments: a successful upload number k of the run
\* updates the substitution map, which is the object __replace_user_dict itself.
RECURSIVE UploadAll(_, _, _, _)
UploadAll(d, atts, ok, n) ==
    IF atts = <<>> THEN d
    ELSE IF Head(ok)
         THEN UploadAll(DictUpdate(d, Head(atts), n + 1), Tail(atts), Tail(ok), n + 1)
         ELSE UploadAll(d, Tail(atts), Tail(ok), n)

\* A variant that takes any mapping entry, the in-progress sentinel included.
ResolvedAnyEntry(id) == id \in DOMAIN hash

\* The ids of a footer line: the mapping values of the referenced ids that are
\* in the mapping with a positive value.
Resolved(id) == id \in DOMAIN hash /\ hash[id] > 0
FooterIds(refs) ==
    LET keep == SelectSeq(refs, Resolved)
    IN  [k \in DOMAIN keep |-> hash[keep[k]]]

\* __import_issue from the attachments to the footer of the description.
Describe ==
    /\ phase = "import"
    /\ stack # <<>>
    /\ Top.pc = "links"
    /\ Top.linked = <<>>
    /\ LET iss == issues[Top.id]
       IN  \E ok \in [DOMAIN iss.attachments -> BOOLEAN] :
              LET d == UploadAll(replaceDict, iss.attachments, ok, uploads)
              IN  /\ replaceDict' = d
                  /\ uploads' = uploads + Cardinality({k \in DOMAIN ok : ok[k]})
                  /\ stack' = SetTop([Top EXCEPT
                        !.pc = "milestones",
                        !.uploaded = ok,
                        !.desc = MultipleReplace(Description(iss), d),
                        !.footer = [parent |-> FooterIds(iss.parent),
                                    blocked |-> FooterIds(iss.inward),
                                    related |-> FooterIds(iss.outward)],
                        !.msLeft = iss.milestones])
    /\ UNCHANGED <<inputs, reset, markup, importAnswer, phase, userIdx, defaultUser, hash, msHash, index,
                   imported, linked, linkQueue, gitlabIssues, gitlabMilestones,
                   history, aborted>>

\* A variant that never looks the title up, and so always creates.
ListedMilestoneNone(name) == 0

\* __create_milestone: the first milestone the project lists under the title,
\* else a new one (0: none listed).
ListedMilestone(name) ==
    LET found == {k \in DOMAIN gitlabMilestones : gitlabMilestones[k].title = name}
    IN  IF found = {} THEN 0 ELSE CHOOSE k \in found : \A j \in found : k <= j

\* One iteration of "for jira_milestone in jira_issue.milestones".
ResolveMilestone ==
    /\ phase = "import"
    /\ stack # <<>>
    /\ Top.pc = "milestones"
    /\ Top.msLeft # <<>>
    /\ LET m == Head(Top.msLeft)
           next(id) == SetTop([Top EXCEPT !.msLeft = Tail(@), !.msId = id])
       IN  IF m.id \in DOMAIN msHash
           THEN /\ stack' = next(msHash[m.id])
                /\ UNCHANGED <<msHash, gitlabMilestones, phase, aborted, linkQueue>>
           ELSE IF ListedMilestone(m.name) # 0
                THEN /\ msHash' = Put(msHash, m.id, ListedMilestone(m.name))
                     /\ stack' = next(ListedMilestone(m.name))
                     /\ UNCHANGED <<gitlabMilestones, phase, aborted, linkQueue>>
                ELSE \E created \in BOOLEAN :
                        IF created
                        THEN /\ gitlabMilestones' = Append(gitlabMilestones,
                                    [title |-> m.name, created |-> TRUE])
                             /\ msHash' = Put(msHash, m.id, Len(gitlabMilestones) + 1)
                             /\ stack' = next(Len(gitlabMilestones) + 1)
                             /\ UNCHANGED <<phase, aborted, linkQueue>>
                        ELSE Abort /\ UNCHANGED <<msHash, gitlabMilestones>>
    /\ UNCHANGED <<inputs, reset, markup, importAnswer, userIdx, defaultUser, replaceDict, hash, index, imported,
                   linked, gitlabIssues, uploads, history>>

\* The sudo header and project.issues.create: .login of the reporter's identity
\* is read first; the create call either returns the new issue or raises.
CreateIssue ==
    /\ phase = "import"
    /\ stack # <<>>
    /\ Top.pc = "milestones"
    /\ Top.msLeft = <<>>
    /\ LET iss == issues[Top.id]
           iid == Len(gitlabIssues) + 1
       IN  IF ~HasLogin(MapJiraUser(iss.reporter))
           THEN Abort /\ UNCHANGED <<gitlabIssues, createCalls>>
           ELSE /\ createCalls' = [createCalls EXCEPT ![Top.id] = @ + 1]
                /\ \E created \in BOOLEAN :
                      IF created
                      THEN /\ gitlabIssues' = Append(gitlabIssues,
                                  [src |-> Top.id, description |-> Top.desc,
                                   footer |-> Top.footer, milestone_id |-> Top.msId,
                                   sudo |-> MapJiraUser(iss.reporter),
                                   notes |-> <<>>, uploaded |-> Top.uploaded,
                                   started |-> Top.started,
                                   chain |-> {stack[k].id : k \in DOMAIN stack},
                                   resolved |-> {i \in DOMAIN hash : hash[i] > 0}])
                           /\ stack' = SetTop([Top EXCEPT !.pc = "notes", !.iid = iid,
                                                          !.notesLeft = iss.ncomments])
                           /\ UNCHANGED <<phase, aborted, linkQueue>>
                      ELSE Abort /\ UNCHANGED gitlabIssues
    /\ UNCHANGED <<inputs, reset, markup, importAnswer, userIdx, defaultUser, replaceDict, hash, msHash, index,
                   imported, linked, gitlabMilestones, uploads, skips, cycleHits,
                   linkLog, asked>>

\* One iteration of "for comment in jira_issue.comments".
CreateNote ==
    /\ phase = "import"
    /\ stack # <<>>
    /\ Top.pc = "notes"
    /\ Top.notesLeft > 0
    /\ \E created \in BOOLEAN :
          IF created
          THEN /\ gitlabIssues' = [gitlabIssues EXCEPT ![Top.iid].notes =
                      Append(@, MultipleReplace(Description(issues[Top.id]), replaceDict))]
               /\ stack' = SetTop([Top EXCEPT !.notesLeft = @ - 1])
               /\ UNCHANGED <<phase, aborted, linkQueue>>
          ELSE Abort /\ UNCHANGED gitlabIssues
    /\ UNCHANGED <<inputs, reset, markup, importAnswer, userIdx, defaultUser, replaceDict, hash, msHash, index,
                   imported, linked, gitlabMilestones, uploads, history>>

\* A variant that returns without writing the created issue's id.
FinishKeepsSentinel ==
    /\ phase = "import"
    /\ stack # <<>>
    /\ Top.pc = "notes"
    /\ Top.notesLeft = 0
    /\ stack' = Pop
    /\ imported' = IF Len(stack) = 1 THEN imported + 1 ELSE imported
    /\ UNCHANGED <<inputs, reset, markup, importAnswer, phase, userIdx, defaultUser,
                   replaceDict, hash, msHash, index, linked, linkQueue, gitlabIssues,
                   gitlabMilestones, uploads, history, aborted>>

\* The end of __import_issue: the created issue's id replaces the sentinel, and
\* the call returns (to __import_issues, which counts it, or to the caller's loop).
Finish ==
    /\ phase = "import"
    /\ stack # <<>>
    /\ Top.pc = "notes"
    /\ Top.notesLeft = 0
    /\ hash' = Put(hash, Top.id, Top.iid)
    /\ stack' = Pop
    /\ imported' = IF Len(stack) = 1 THEN imported + 1 ELSE imported
    /\ UNCHANGED <<inputs, reset, markup, importAnswer, phase, userIdx, defaultUser, replaceDict, msHash, index,
                   linked, linkQueue, gitlabIssues, gitlabMilestones, uploads,
                   history, aborted>>

\* ------------------------------------------------------------------ link pass
\* The __create_link calls __link_imported_issues makes for one issue, in order.
LinkCalls(id) ==
    LET iss == issues[id]
        call(rel, dst, kind) == [jsrc |-> id, jdst |-> dst, rel |-> rel, kind |-> kind]
    IN  [k \in DOMAIN iss.parent |-> call("parent", iss.parent[k], "blocks")]
        \o [k \in DOMAIN iss.inward |-> call("inward", iss.inward[k], "is_blocked_by")]
        \o [k \in DOMAIN iss.outward |-> call("outward", iss.outward[k], "relates_to")]

\* __link_imported_issues: the next issue of the list, or the end of the pass.
LinkNextIssue ==
    /\ phase = "link"
    /\ linkQueue = <<>>
    /\ IF index < NumIssues
       THEN /\ index' = index + 1
            /\ linkQueue' = LinkCalls(index + 1)
            /\ UNCHANGED phase
       ELSE /\ phase' = "done"
            /\ UNCHANGED <<index, linkQueue>>
    /\ UNCHANGED <<inputs, reset, markup, importAnswer, userIdx, defaultUser, replaceDict, hash, msHash, stack,
                   imported, linked, gitlabIssues, gitlabMilestones, uploads,
                   history, aborted>>

\* A variant that tests the source id only.
LinkEndpointsKnownSrcOnly(c) == c.jsrc \in DOMAIN hash

\* "if jira_src_id not in hash.keys() or jira_dst_id not in hash.keys(): return 0"
LinkEndpointsKnown(c) == c.jsrc \in DOMAIN hash /\ c.jdst \in DOMAIN hash

\* A variant that always requests the kind the caller names.
LinkTypeAsGiven(c) == c.kind

\* "if not self._GITLAB_PREMIUM: link_type = 'relates_to'"
LinkType(c) == IF premium THEN c.kind ELSE "relates_to"

\* What __create_link returns after the links.create call, made or refused.
LinkResult(created) == 1

\* A variant in which the GitlabCreateError of links.create is not caught.
CreateLinkConflictRaises ==
    /\ phase = "link"
    /\ linkQueue # <<>>
    /\ LET c == Head(linkQueue)
           entry(dst, result) ==
               [jsrc |-> c.jsrc, jdst |-> c.jdst, rel |-> c.rel, src |-> hash[c.jsrc],
                dst |-> dst, kind |-> LinkType(c), result |-> result]
       IN  IF ~LinkEndpointsKnown(c)
           THEN /\ linkQueue' = Tail(linkQueue)
                /\ UNCHANGED <<linked, linkLog, phase, aborted, stack>>
           ELSE IF c.jsrc \notin DOMAIN hash
                THEN Abort /\ UNCHANGED <<linked, linkLog>>
                ELSE IF c.jdst \notin DOMAIN hash
                     THEN /\ Abort
                          /\ linkLog' = Append(linkLog, entry(0, "keyerror"))
                          /\ UNCHANGED linked
                     ELSE \E created \in BOOLEAN :
                             /\ created =>
                                   ~\E k \in DOMAIN linkLog :
                                       /\ linkLog[k].result = "created"
                                       /\ {linkLog[k].src, linkLog[k].dst}
                                             = {hash[c.jsrc], hash[c.jdst]}
                             /\ linkLog' = Append(linkLog,
                                   entry(hash[c.jdst],
                                         IF created THEN "created" ELSE "conflict"))
                             /\ IF created
                                THEN /\ linked' = linked + 1
                                     /\ linkQueue' = Tail(linkQueue)
                                     /\ UNCHANGED <<phase, aborted, stack>>
                                ELSE Abort /\ UNCHANGED linked
    /\ UNCHANGED <<inputs, reset, markup, importAnswer, userIdx, defaultUser, replaceDict, hash, msHash,
                   index, imported, gitlabIssues, gitlabMilestones, uploads,
                   createCalls, skips, cycleHits, asked>>

\* __create_link for the next (src, dst, kind) of the current issue: after the
\* membership test, issues.get(hash[src]) is called, then hash[dst] is read (a
\* KeyError for a missing key) and links.create is called; a GitlabCreateError
\* is caught. The destination refuses a second link between the same two issues.
CreateLink ==
    /\ phase = "link"
    /\ linkQueue # <<>>
    /\ LET c == Head(linkQueue)
           entry(dst, result) ==
               [jsrc |-> c.jsrc, jdst |-> c.jdst, rel |-> c.rel, src |-> hash[c.jsrc],
                dst |-> dst, kind |-> LinkType(c), result |-> result]
       IN  IF ~LinkEndpointsKnown(c)
           THEN /\ linkQueue' = Tail(linkQueue)
                /\ UNCHANGED <<linked, linkLog, phase, aborted, stack>>
           ELSE IF c.jsrc \notin DOMAIN hash
                THEN Abort /\ UNCHANGED <<linked, linkLog>>
                ELSE IF c.jdst \notin DOMAIN hash
                     THEN /\ Abort
                          /\ linkLog' = Append(linkLog, entry(0, "keyerror"))
                          /\ UNCHANGED linked
                     ELSE \E created \in BOOLEAN :
                             /\ created =>
                                   ~\E k \in DOMAIN linkLog :
                                       /\ linkLog[k].result = "created"
                                       /\ {linkLog[k].src, linkLog[k].dst}
                                             = {hash[c.jsrc], hash[c.jdst]}
                             /\ linkLog' = Append(linkLog,
                                   entry(hash[c.jdst],
                                         IF created THEN "created" ELSE "conflict"))
                             /\ linked' = linked + LinkResult(created)
                             /\ linkQueue' = Tail(linkQueue)
                             /\ UNCHANGED <<phase, aborted, stack>>
    /\ UNCHANGED <<inputs, reset, markup, importAnswer, userIdx, defaultUser, replaceDict, hash, msHash,
                   index, imported, gitlabIssues, gitlabMilestones, uploads,
                   createCalls, skips, cycleHits, asked>>

\* ------------------------------------------------------------- specification
Next ==
    \/ CheckJiraUser
    \/ BuildReplaceDict
    \/ DeleteIssues
    \/ DeleteIssue
    \/ DeleteMilestone
    \/ RunImport
    \/ NextIssue
    \/ Descend
    \/ Describe
    \/ ResolveMilestone
    \/ CreateIssue
    \/ CreateNote
    \/ Finish
    \/ LinkNextIssue
    \/ CreateLink

Spec == Init /\ [][Next]_vars
SpecLinks == InitLinks /\ [][Next]_vars
SpecMilestones == InitMilestones /\ [][Next]_vars
SpecAttachments == InitAttachments /\ [][Next]_vars
SpecUsers == InitUsers /\ [][Next]_vars
SpecReset == InitReset /\ [][Next]_vars

\* ----------------------------------------- __multiple_replace on characters
\* A text is a sequence of characters. The texts below are written with the
\* characters of Alphabet only; every rule of __multiple_replace other than the
\* ordered-list rules, the title rules and the dictionary loop needs a
\* character outside it ("{", "\r", "b", "[", "-", "*", "_", "+", ":", ";" or
\* "(") and leaves these texts as they are.
Digits == <<"1", "2", "3", "4", "5", "6">>
Alphabet == {"\n", " ", "#", "h", ".", "^", "T", "s", "!", "|", "w"}
                \cup Range(Digits) \cup UNION {Range(FileChars(f)) : f \in Filenames}
Spaces(n) == [k \in 1..n |-> " "]
Hashes(n) == [k \in 1..n |-> "#"]

RECURSIVE LeadingSpaces(_)
LeadingSpaces(t) ==
    IF t # <<>> /\ Head(t) = " " THEN 1 + LeadingSpaces(Tail(t)) ELSE 0

\* r'\n *[*\-#]{d}# ' matched at the head of t: the length matched, 0 for none.
ListMatch(d, t) ==
    IF t # <<>> /\ Head(t) = "\n"
    THEN LET k == LeadingSpaces(Tail(t))
             rest == SubSeq(t, k + 2, Len(t))
         IN  IF /\ Len(rest) >= d + 2
                /\ \A j \in 1..d : rest[j] \in {"*", "-", "#"}
                /\ rest[d + 1] = "#"
                /\ rest[d + 2] = " "
             THEN k + d + 3
             ELSE 0
    ELSE 0

\* r'[\n^]hN\. ' matched at the head of t: inside the brackets "^" is the
\* character itself, not the start of the text.
TitleMatch(n, t) ==
    IF /\ Len(t) >= 5
       /\ t[1] \in {"\n", "^"}
       /\ t[2] = "h" /\ t[3] = Digits[n] /\ t[4] = "." /\ t[5] = " "
    THEN 5
    ELSE 0

\* A variant of the attachment pattern without "[^!]*".
KeyMatchExact(name, t) ==
    IF /\ Len(t) >= Len(name) + 2
       /\ t[1] = "!"
       /\ \A j \in 1..Len(name) : t[j + 1] = name[j]
       /\ t[Len(name) + 2] = "!"
    THEN Len(name) + 2
    ELSE 0

\* f"!{attachment.filename}[^!]*!" matched at the head of t: "." of the file
\* name stands for any character but a newline, and the match ends at the next
\* "!".
KeyMatch(name, t) ==
    LET n == Len(name)
        ends == {e \in (n + 2)..Len(t) : t[e] = "!"}
    IN  IF /\ Len(t) >= n + 2
           /\ t[1] = "!"
           /\ \A j \in 1..n : IF name[j] = "." THEN t[j + 1] # "\n"
                                               ELSE t[j + 1] = name[j]
           /\ ends # {}
        THEN CHOOSE e \in ends : \A x \in ends : e <= x
        ELSE 0

MatchLen(p, t) ==
    CASE p.kind = "list" -> ListMatch(p.n, t)
      [] p.kind = "title" -> TitleMatch(p.n, t)
      [] p.kind = "key" -> KeyMatch(p.name, t)

\* re.sub(pattern, repl, t): the matches are taken from the left and do not
\* overlap; repl has no group reference.
RECURSIVE ReSub(_, _, _)
ReSub(p, repl, t) ==
    IF t = <<>> THEN <<>>
    ELSE LET n == MatchLen(p, t)
         IN  IF n > 0
             THEN repl \o ReSub(p, repl, SubSeq(t, n + 1, Len(t)))
             ELSE <<Head(t)>> \o ReSub(p, repl, Tail(t))

\* The four ordered-list rules, in their order: list, sub-list, sub-sub-list.
RECURSIVE OrderedLists(_, _)
OrderedLists(t, d) ==
    IF d > 3 THEN t
    ELSE OrderedLists(ReSub([kind |-> "list", n |-> d, name |-> <<>>],
                            <<"\n">> \o Spaces(3 * d) \o <<"1", ".", " ">>, t),
                      d + 1)

\* The six title rules, h1 first.
RECURSIVE Titles(_, _)
Titles(t, n) ==
    IF n > 6 THEN t
    ELSE Titles(ReSub([kind |-> "title", n |-> n, name |-> <<>>],
                      <<"\n">> \o Hashes(n) \o <<" ">>, t),
                n + 1)

\* "for k, v in dictionary.items(): t = re.sub(k, v, t)"
RECURSIVE DictionaryLoop(_, _)
DictionaryLoop(t, d) ==
    IF d = <<>> THEN t
    ELSE DictionaryLoop(ReSub([kind |-> "key", n |-> 0, name |-> Head(d).key],
                              Head(d).value, t),
                        Tail(d))

\* What __upload_attachment returns for an uploaded file: the pattern (its file
\* name part) and the image markdown with the returned url.
UploadEntry(f, url) ==
    [key |-> FileChars(f),
     value |-> <<"!", "[">> \o FileChars(f) \o <<"]", "(", url, ")", " ", " ", "\n">>]

\* The Jira embed marker of a file, with display options or without.
EmbedMarker(f, options) == <<"!">> \o FileChars(f) \o options \o <<"!">>
HeadingLine(n) == <<"h", Digits[n], ".", " ", "T">>
ListLine == <<"#", " ", "s">>
PlainLine == <<"T">>
Lines ==
    {HeadingLine(n) : n \in 1..6}
        \cup {ListLine, <<" ">> \o ListLine, <<"#">> \o ListLine, PlainLine,
              <<"^">> \o HeadingLine(1),
              EmbedMarker("shot.png", <<>>), EmbedMarker("shot.png", <<"|", "w">>),
              EmbedMarker("log.txt", <<>>)}
Texts == UNION {[1..k -> Lines] : k \in 1..MaxLines}
Dictionaries ==
    {<<>>, <<UploadEntry("shot.png", "url1")>>,
     <<UploadEntry("log.txt", "url1"), UploadEntry("shot.png", "url2")>>}

\* The lines of a text joined by newlines.
RECURSIVE Join(_)
Join(ls) ==
    IF Len(ls) = 1 THEN ls[1]
    ELSE Join(SubSeq(ls, 1, Len(ls) - 1)) \o <<"\n">> \o Last(ls)

\* A call of __multiple_replace(text, dictionary) on a text of up to MaxLines
\* lines.
InitMarkup ==
    /\ issues = BaseIssues
    /\ premium = FALSE
    /\ PlainUsers
    /\ gitlabMilestones = <<>>
    /\ oldIssues = 0
    /\ Fresh
    /\ phase = "markup"
    /\ srcLines \in Texts
    /\ dictionary \in Dictionaries
    /\ txt = Join(srcLines)
    /\ stage = "lists"

Program == <<inputs, reset, importAnswer, phase, userIdx, defaultUser, replaceDict,
             hash, msHash, index, stack, imported, linked, linkQueue, gitlabIssues,
             gitlabMilestones, uploads, history, aborted>>

\* The rules up to the list rules (lines 388-411).
RewriteLists ==
    /\ phase = "markup"
    /\ stage = "lists"
    /\ txt' = OrderedLists(txt, 0)
    /\ stage' = "titles"
    /\ UNCHANGED <<Program, srcLines, dictionary>>

\* The text effects and the title rules (lines 413-425).
RewriteTitles ==
    /\ phase = "markup"
    /\ stage = "titles"
    /\ txt' = Titles(txt, 1)
    /\ stage' = "dictionary"
    /\ UNCHANGED <<Program, srcLines, dictionary>>

\* The emoji rules and the dictionary loop (lines 427-449); t is returned.
ApplyDictionary ==
    /\ phase = "markup"
    /\ stage = "dictionary"
    /\ txt' = DictionaryLoop(txt, dictionary)
    /\ stage' = "done"
    /\ UNCHANGED <<Program, srcLines, dictionary>>

NextMarkup ==
    \/ RewriteLists
    \/ RewriteTitles
    \/ ApplyDictionary

SpecMarkup == InitMarkup /\ [][NextMarkup]_vars

\* ===================================================================== claims
IssueRefs(i) == Range(issues[i].parent) \cup Range(issues[i].inward)
                   \cup Range(issues[i].outward)
\* The iid of the destination issue created for a source id (0: none).
IidOf(i) ==
    IF \E g \in DOMAIN gitlabIssues : gitlabIssues[g].src = i
    THEN CHOOSE g \in DOMAIN gitlabIssues : gitlabIssues[g].src = i
    ELSE 0
ImportCompleted == phase \in {"link", "done"} /\ ~aborted

\* C1: over a run, issues.create is called at most once per source issue id,
\* whatever the reference graph; a visit to an id that has a mapping entry
\* creates nothing.
AtMostOneCreatePerId ==
    /\ \A i \in Ids : createCalls[i] <= 1
    /\ \A g, h \in DOMAIN gitlabIssues :
          gitlabIssues[g].src = gitlabIssues[h].src => g = h

\* An id that was imported by a descent and then met again by the top-level
\* loop, which returned without creating.
RevisitSkipped ==
    \E i \in skips : createCalls[i] = 1 /\ \E j \in Ids : j < i /\ i \in IssueRefs(j)

\* C2: importAll terminates on every reference graph. Every step of the import
\* decreases a measure that is a natural number, and no id is ever twice on the
\* recursion stack.
IssueWork(i) ==
    Len(issues[i].parent) + Len(issues[i].inward) + Len(issues[i].outward)
        + Len(issues[i].milestones) + issues[i].ncomments + 3
FrameWork(f) ==
    CASE f.pc = "links" ->
            Len(f.linked) + Len(issues[f.id].milestones) + issues[f.id].ncomments + 3
      [] f.pc = "milestones" -> Len(f.msLeft) + issues[f.id].ncomments + 2
      [] f.pc = "notes" -> f.notesLeft + 1
MaxIssueWork == CHOOSE w \in {IssueWork(i) : i \in Ids} :
                    \A i \in Ids : IssueWork(i) <= w
RECURSIVE StackWork(_)
StackWork(st) == IF st = <<>> THEN 0 ELSE FrameWork(Head(st)) + StackWork(Tail(st))
ImportMeasure ==
    IF phase = "import"
    THEN 1 + (NumIssues - index) + StackWork(stack)
           + (MaxIssueWork + 1) * Cardinality(Ids \ DOMAIN hash)
    ELSE 0
NoIdTwiceOnStack ==
    \A a, b \in DOMAIN stack : stack[a].id = stack[b].id => a = b
ImportTerminates ==
    [][phase = "import" =>
          /\ ImportMeasure' < ImportMeasure
          /\ ImportMeasure' >= 0
          /\ NoIdTwiceOnStack']_vars

\* An import that met an id in progress (a reference cycle) and completed.
CycleImportCompleted ==
    /\ ImportCompleted
    /\ cycleHits # {}
    /\ \E i, j \in Ids : i # j /\ j \in IssueRefs(i) /\ i \in IssueRefs(j)
                           /\ i \in cycleHits

\* C3: every destination issue id in the footer of a created issue is the
\* positive mapping value of a referenced source issue whose destination issue
\* was created earlier; a referenced id without such an issue is left out, and
\* the issue is created all the same.
FooterLineOk(g, ids, refs) ==
    /\ \A k \in DOMAIN ids :
          /\ ids[k] \in 1..(g - 1)
          /\ gitlabIssues[ids[k]].src \in Range(refs)
          /\ gitlabIssues[ids[k]].src \in DOMAIN hash
          /\ hash[gitlabIssues[ids[k]].src] = ids[k]
    /\ \A r \in Range(refs) :
          (\E k \in DOMAIN ids : gitlabIssues[ids[k]].src = r)
             <=> (IidOf(r) \in 1..(g - 1))
FooterRefersToCreatedIssues ==
    \A g \in DOMAIN gitlabIssues :
        LET G == gitlabIssues[g]
        IN  /\ FooterLineOk(g, G.footer.parent, issues[G.src].parent)
            /\ FooterLineOk(g, G.footer.blocked, issues[G.src].inward)
            /\ FooterLineOk(g, G.footer.related, issues[G.src].outward)

\* An issue created with a resolved reference in its footer, and an issue
\* created although a reference of it was in progress or outside the set.
FooterWithAndWithoutRefs ==
    /\ \E g \in DOMAIN gitlabIssues :
          gitlabIssues[g].footer.parent # <<>> \/ gitlabIssues[g].footer.blocked # <<>>
    /\ \E g \in DOMAIN gitlabIssues :
          \E r \in IssueRefs(gitlabIssues[g].src) : IidOf(r) \notin 1..(g - 1)

\* C4: every destination call of the link pass (and so every created link) is
\* for a pair whose two endpoints are in the mapping with a positive value, and
\* is made between the mapped destination issues; a pair with a missing
\* endpoint causes no destination call.
LinksHaveResolvedEndpoints ==
    \A k \in DOMAIN linkLog :
        LET e == linkLog[k]
        IN  /\ e.jsrc \in DOMAIN hash /\ hash[e.jsrc] > 0 /\ e.src = hash[e.jsrc]
            /\ e.jdst \in DOMAIN hash /\ hash[e.jdst] > 0 /\ e.dst = hash[e.jdst]
            /\ e.src \in DOMAIN gitlabIssues /\ e.dst \in DOMAIN gitlabIssues

\* A finished link pass that created a link and skipped a pair whose target is
\* outside the imported set.
LinkCreatedAndPairSkipped ==
    /\ phase = "done" /\ ~aborted
    /\ \E k \in DOMAIN linkLog : linkLog[k].result = "created"
    /\ \E i \in Ids : OutsideId \in IssueRefs(i)

\* C5 (as stated): issue A has parent B and inward link C, B and C are in the
\* set, have no references and are not yet imported when the import of A
\* starts; then B is created first, then C, then A.
NoRefs(i) == issues[i].parent = <<>> /\ issues[i].inward = <<>> /\ issues[i].outward = <<>>
ParentAndInward(a) ==
    /\ Len(issues[a].parent) = 1 /\ Len(issues[a].inward) = 1
    /\ issues[a].outward = <<>>
    /\ LET b == issues[a].parent[1]
           c == issues[a].inward[1]
       IN  /\ b \in Ids /\ c \in Ids
           /\ a # b /\ a # c /\ b # c
           /\ NoRefs(b) /\ NoRefs(c)
\* x had no destination issue when the import of a (which has one) started
NotYetImported(x, a) ==
    IidOf(x) = 0 \/ IidOf(x) > gitlabIssues[IidOf(a)].started
ImportedWithParentAndInward(a) ==
    /\ ParentAndInward(a)
    /\ IidOf(a) > 0
    /\ NotYetImported(issues[a].parent[1], a)
    /\ NotYetImported(issues[a].inward[1], a)
ParentThenInwardThenIssue ==
    \A a \in Ids :
        ImportedWithParentAndInward(a)
        => LET b == IidOf(issues[a].parent[1])
               c == IidOf(issues[a].inward[1])
           IN  0 < b /\ b < c /\ c < IidOf(a)

\* C5 (amended): in that situation the inward-linked C is created first, then
\* the parent B, then A: the descent follows inward + outward + [parent].
InwardThenParentThenIssue ==
    \A a \in Ids :
        ImportedWithParentAndInward(a)
        => LET b == IidOf(issues[a].parent[1])
               c == IidOf(issues[a].inward[1])
           IN  0 < c /\ c < b /\ b < IidOf(a)

\* The three issues of such a scenario created by the import of A.
ParentAndInwardImported ==
    \E a \in Ids : ImportedWithParentAndInward(a) /\ a \in DOMAIN hash /\ hash[a] > 0

\* C6: every link the pass requests for source issue S goes from the
\* destination issue of S to that of the referenced issue, and its kind is
\* "blocks" for the parent, "is_blocked_by" for an inward id and "relates_to"
\* for an outward id with typed links, and "relates_to" without.
RelationKind(rel) ==
    IF rel = "parent" THEN "blocks"
    ELSE IF rel = "inward" THEN "is_blocked_by" ELSE "relates_to"
RelationOf(i, rel) ==
    IF rel = "parent" THEN Range(issues[i].parent)
    ELSE IF rel = "inward" THEN Range(issues[i].inward) ELSE Range(issues[i].outward)
LinkKindFollowsRelation ==
    \A k \in DOMAIN linkLog :
        LET e == linkLog[k]
        IN  /\ e.rel \in {"parent", "inward", "outward"}
            /\ e.jdst \in RelationOf(e.jsrc, e.rel)
            /\ e.kind = IF premium THEN RelationKind(e.rel) ELSE "relates_to"
            /\ e.src = IidOf(e.jsrc)
            /\ e.dst = IidOf(e.jdst)

\* With typed links: a "blocks" link to the parent and an "is_blocked_by" link
\* to an inward id, both created.
TypedLinksCreated ==
    /\ premium
    /\ \E k \in DOMAIN linkLog :
          linkLog[k].rel = "parent" /\ linkLog[k].kind = "blocks"
             /\ linkLog[k].result = "created"
    /\ \E k \in DOMAIN linkLog :
          linkLog[k].rel = "inward" /\ linkLog[k].kind = "is_blocked_by"
             /\ linkLog[k].result = "created"

\* C7: the linked count of the link pass is the number of links created: an
\* attempt that raised a creation conflict is not counted.
LinkedCountsCreatedLinks ==
    linked = Cardinality({k \in DOMAIN linkLog : linkLog[k].result = "created"})

\* C8 (as stated): two created issues that reference source milestones of the
\* same name have the same destination milestone id; at most one milestone per
\* name is created, and none under a title the destination already had.
MilestoneTitlesUnique ==
    \A a, b \in DOMAIN gitlabMilestones :
        gitlabMilestones[a].title = gitlabMilestones[b].title => a = b
SameNameSameMilestone ==
    /\ \A g, h \in DOMAIN gitlabIssues :
          (\E m \in Range(issues[gitlabIssues[g].src].milestones),
              n \in Range(issues[gitlabIssues[h].src].milestones) : m.name = n.name)
          => gitlabIssues[g].milestone_id = gitlabIssues[h].milestone_id
    /\ MilestoneTitlesUnique

\* C8 (amended): an issue is assigned the destination milestone of the last
\* milestone of its list. Two created issues whose last milestones have the
\* same name have the same destination milestone id, which is the milestone of
\* that title; every source milestone id resolves to the milestone of its name;
\* titles stay unique (at most one created per name, none for a title that
\* existed).
LastMilestoneSameNameSameId ==
    /\ \A g \in DOMAIN gitlabIssues :
          LET ms == issues[gitlabIssues[g].src].milestones
              id == gitlabIssues[g].milestone_id
          IN  IF ms = <<>> THEN id = 0
              ELSE /\ id \in DOMAIN gitlabMilestones
                   /\ gitlabMilestones[id].title = Last(ms).name
    /\ \A g, h \in DOMAIN gitlabIssues :
          LET ms == issues[gitlabIssues[g].src].milestones
              ns == issues[gitlabIssues[h].src].milestones
          IN  (ms # <<>> /\ ns # <<>> /\ Last(ms).name = Last(ns).name)
              => gitlabIssues[g].milestone_id = gitlabIssues[h].milestone_id
    /\ \A k \in DOMAIN msHash :
          /\ msHash[k] \in DOMAIN gitlabMilestones
          /\ \E m \in SrcMilestones :
                m.id = k /\ gitlabMilestones[msHash[k]].title = m.name
    /\ MilestoneTitlesUnique

\* Two issues with milestones of one name under different source ids, assigned
\* one destination milestone.
SharedMilestoneAssigned ==
    \E g, h \in DOMAIN gitlabIssues :
        LET ms == issues[gitlabIssues[g].src].milestones
            ns == issues[gitlabIssues[h].src].milestones
        IN  /\ g # h /\ ms # <<>> /\ ns # <<>>
            /\ Last(ms).id # Last(ns).id /\ Last(ms).name = Last(ns).name
            /\ gitlabIssues[g].milestone_id = gitlabIssues[h].milestone_id
            /\ gitlabIssues[g].milestone_id > 0

\* C9: when the upload of an attachment of issue X failed (and no attachment of
\* X whose pattern matches the same marker was uploaded), the marker of that
\* attachment is still in X's description and in X's comments.
FailedUploadLeavesPlaceholder ==
    \A g \in DOMAIN gitlabIssues :
        LET G == gitlabIssues[g]
            atts == issues[G.src].attachments
        IN  \A k \in DOMAIN atts :
                (/\ ~G.uploaded[k]
                 /\ \A j \in DOMAIN atts : G.uploaded[j] => ~KeyMatches(atts[j], atts[k]))
                => /\ G.description[k] = Embed(atts[k])
                   /\ \A n \in DOMAIN G.notes : G.notes[n][k] = Embed(atts[k])

\* C10: when the start-up is over and the run goes on, the confirmation was
\* asked for every Jira user whose display name does not resolve to a
\* destination account through the user table.
IdentityMiss(name) ==
    ~(name \in DOMAIN USER_NAME_MAP /\ USER_NAME_MAP[name] \in members)
MissTriggersDecision ==
    (phase # "startup" /\ ~aborted)
    => \A k \in DOMAIN jiraUsers : IdentityMiss(jiraUsers[k]) => jiraUsers[k] \in asked

\* C11: declining a confirmation has no side effects. Unless the import prompt
\* was answered affirmatively, nothing was uploaded, no milestone, issue,
\* comment or link was created and both mapping tables are empty; unless the
\* reset prompt was answered affirmatively, no issue and no milestone was
\* deleted.
NoImportWrites ==
    /\ gitlabIssues = <<>>
    /\ uploads = 0
    /\ \A k \in DOMAIN gitlabMilestones : ~gitlabMilestones[k].created
    /\ linkLog = <<>>
NoDeletes == deletedIssues = 0 /\ deletedMilestones = 0
DeclineHasNoSideEffects ==
    /\ ~(importAnswer \in {"y", "Y", "yes", "YES"})
          => NoImportWrites /\ hash = EmptyMap /\ msHash = EmptyMap
    /\ ~(resetAnswer \in {"y", "Y", "yes", "YES"}) => NoDeletes

\* A finished run in which both prompts were shown and declined, with issues
\* and a milestone in the project before the run.
BothPromptsDeclined ==
    /\ phase = "done" /\ ~aborted
    /\ resetAnswer \in {"n", ""} /\ importAnswer \in {"n", ""}
    /\ oldIssues > 0 /\ gitlabMilestones # <<>>

\* C12: without a destination project the process writes and deletes nothing,
\* and shows no prompt.
NoProjectNoWrites ==
    ~projectOk => /\ NoImportWrites
                  /\ NoDeletes
                  /\ resetAnswer = "none" /\ importAnswer = "none"
                  /\ phase \in {"startup", "delete_issues", "run_import", "done"}

\* A finished run without a project, whose destination held issues and a
\* milestone.
NoProjectRunFinished ==
    /\ ~projectOk /\ phase = "done" /\ ~aborted
    /\ oldIssues > 0 /\ gitlabMilestones # <<>>

\* C13: when delete_issues has returned (the state is at the entry of
\* run_import) for a project and the operator did not decline, the project has
\* no issues and no milestones.
ResetLeavesNothing ==
    (phase = "run_import" /\ projectOk /\ ~(resetAnswer \in {"n", ""}))
    => oldIssues = 0 /\ gitlabMilestones = <<>>

\* C14: a line that begins with "hn. " comes out as n "#" characters, a space
\* and the rest of the line, for every n in 1..6 and for every line of the
\* text, the first one included.
Occurrences(v, t) ==
    Cardinality({i \in 1..(Len(t) - Len(v) + 1) : SubSeq(t, i, i + Len(v) - 1) = v})
LinesAmong(S) == \A k \in DOMAIN srcLines : srcLines[k] \in S
ExpectedHeading(line) ==
    IF \E n \in 1..6 : line = HeadingLine(n)
    THEN LET n == CHOOSE n \in 1..6 : line = HeadingLine(n)
         IN  Hashes(n) \o <<" ", "T">>
    ELSE line
HeadingsTranslated ==
    (stage = "done" /\ LinesAmong({HeadingLine(n) : n \in 1..6} \cup {PlainLine}))
    => txt = Join([k \in DOMAIN srcLines |-> ExpectedHeading(srcLines[k])])

\* C15: "# " at the start of a line comes out as "1. ", for every line of the
\* text, the first one included.
ExpectedListItem(line) ==
    IF line = ListLine THEN <<"1", ".", " ", "s">> ELSE line
OrderedListTranslated ==
    (stage = "done" /\ LinesAmong({ListLine, PlainLine}))
    => txt = Join([k \in DOMAIN srcLines |-> ExpectedListItem(srcLines[k])])

\* C16: with the entry of an uploaded "shot.png" in the dictionary, every embed
\* marker of that file, with options or without, is replaced by the image
\* markdown with the url returned for it; before the dictionary loop the
\* structural rules have left the markers as they were.
PngMarkers == {EmbedMarker("shot.png", <<>>), EmbedMarker("shot.png", <<"|", "w">>)}
PngMarkerLines == Cardinality({k \in DOMAIN srcLines : srcLines[k] \in PngMarkers})
PngEntries == {k \in DOMAIN dictionary : dictionary[k].key = FileChars("shot.png")}
EmbedMarkerReplaced ==
    /\ stage \in {"titles", "dictionary"}
          => \A m \in PngMarkers :
                Occurrences(m, txt)
                   = Cardinality({k \in DOMAIN srcLines : srcLines[k] = m})
    /\ (stage = "done" /\ PngEntries # {})
          => /\ \A k \in PngEntries :
                   Occurrences(dictionary[k].value, txt) = PngMarkerLines
             /\ \A m \in PngMarkers : Occurrences(m, txt) = 0

\* A translated text whose two lines were the two forms of the marker.
BothMarkerFormsReplaced ==
    /\ stage = "done"
    /\ PngEntries # {}
    /\ PngMarkerLines = 2
    /\ \A m \in PngMarkers : \E k \in DOMAIN srcLines : srcLines[k] = m
    /\ \A k \in PngEntries : Occurrences(dictionary[k].value, txt) = 2

\* C17: __map_jira_user gives the member the user table names for the display
\* name, and in every other case the configured default identity; what it
\* gives always is an identity (something with a login).
ResolveReturnsIdentity ==
    \A name \in DisplayNames :
        /\ MapJiraUser(name) =
              IF name \in DOMAIN USER_NAME_MAP /\ USER_NAME_MAP[name] \in members
              THEN USER_NAME_MAP[name]
              ELSE GITLAB_DEFAULT_USER
        /\ HasLogin(MapJiraUser(name))

\* C18: an entry of the issue mapping goes from absent to 0 to a positive id
\* and then stays; an entry of the milestone mapping is written once, with a
\* positive id, and stays.
HashStep ==
    /\ \A i \in DOMAIN hash :
          /\ i \in DOMAIN hash'
          /\ hash[i] > 0 => hash'[i] = hash[i]
          /\ hash[i] = 0 => hash'[i] >= 0
    /\ \A i \in DOMAIN hash' : i \notin DOMAIN hash => hash'[i] = 0
MilestoneHashStep ==
    /\ \A k \in DOMAIN msHash : k \in DOMAIN msHash' /\ msHash'[k] = msHash[k]
    /\ \A k \in DOMAIN msHash' : msHash'[k] > 0
MappingsMonotone == [][HashStep /\ MilestoneHashStep]_vars

\* An import with one issue resolved, one in progress and a milestone mapped.
ResolvedAndInProgress ==
    /\ \E i, j \in DOMAIN hash : hash[i] > 0 /\ hash[j] = 0
    /\ msHash # EmptyMap

\* C19: when issues.create is called for X, every referenced id of X in the
\* set is resolved in the mapping, or is in progress on the recursion chain
\* (X itself for a self-reference), in which case X and the id are on a
\* reference cycle; a resolved reference was created before X, and on an
\* acyclic graph every referenced issue in the set was.
RECURSIVE ReachSet(_, _)
ReachSet(S, n) ==
    IF n = 0 THEN S
    ELSE ReachSet(S \cup UNION {IssueRefs(i) \cap Ids : i \in S}, n - 1)
Reaches(a, b) == b \in ReachSet({a}, NumIssues)
Acyclic == \A i \in Ids : \A r \in IssueRefs(i) \cap Ids : ~Reaches(r, i)
DependenciesFirst ==
    \A g \in DOMAIN gitlabIssues :
        LET G == gitlabIssues[g]
        IN  \A r \in IssueRefs(G.src) \cap Ids :
               /\ r \in G.resolved \/ (r \in G.chain /\ Reaches(r, G.src))
               /\ r \in G.resolved => IidOf(r) \in 1..(g - 1)
               /\ Acyclic => IidOf(r) \in 1..(g - 1)

\* An issue created while a reference of it was in progress above it, and an
\* issue created after the issue it refers to.
CycleAndDependencyCreated ==
    /\ \E g \in DOMAIN gitlabIssues :
          \E r \in IssueRefs(gitlabIssues[g].src) \cap Ids :
              r # gitlabIssues[g].src /\ r \notin gitlabIssues[g].resolved
    /\ \E g \in DOMAIN gitlabIssues :
          \E r \in IssueRefs(gitlabIssues[g].src) \cap Ids :
              r \in gitlabIssues[g].resolved

\* C20: the link pass starts when the import loop has ended, with every issue
\* of the set resolved in the mapping and none in progress; once a link call
\* was made on the destination, no issue and no comment is created.
LinkPassAfterImport ==
    /\ [](phase = "link"
            => /\ stack = <<>>
               /\ \A i \in Ids : i \in DOMAIN hash /\ hash[i] > 0)
    /\ [][linkLog # <<>> => gitlabIssues' = gitlabIssues]_vars

\* A finished link pass that created links, after an import that created
\* every issue of the set and met a reference cycle.
LinksAfterAllIssues ==
    /\ phase = "done" /\ ~aborted
    /\ Len(gitlabIssues) = NumIssues
    /\ cycleHits # {}
    /\ \E k \in DOMAIN linkLog : linkLog[k].result = "created"

\* C21: a creation conflict does not stop the link pass. At every point of
\* the pass the destination calls made so far are, in order, the relations with
\* both ids in the mapping of the issues visited so far (each issue once, in
\* list order) less those still to come for the current issue, whatever the
\* outcome of each call; and a pass that made a call ends normally, after the
\* last issue.
BothMapped(c) == c.jsrc \in DOMAIN hash /\ c.jdst \in DOMAIN hash
RECURSIVE CallsUpTo(_)
CallsUpTo(n) == IF n = 0 THEN <<>> ELSE CallsUpTo(n - 1) \o LinkCalls(n)
ConflictDoesNotStopPass ==
    /\ (phase = "link" \/ (phase = "done" /\ linkLog # <<>>))
          => LET due == SelectSeq(CallsUpTo(index), BothMapped)
                 pending == SelectSeq(linkQueue, BothMapped)
             IN  /\ Len(linkLog) = Len(due) - Len(pending)
                 /\ \A k \in DOMAIN linkLog :
                       /\ linkLog[k].jsrc = due[k].jsrc
                       /\ linkLog[k].jdst = due[k].jdst
                       /\ linkLog[k].rel = due[k].rel
    /\ (phase = "done" /\ linkLog # <<>>)
          => ~aborted /\ index = NumIssues /\ linkQueue = <<>>

\* A finished pass in which a call that met a conflict was followed by a call
\* that created a link.
LinkCreatedAfterConflict ==
    /\ phase = "done"
    /\ \E k, m \in DOMAIN linkLog :
          k < m /\ linkLog[k].result = "conflict" /\ linkLog[m].result = "created"

\* C22: a failed creation of an issue, a comment or a milestone ends the run.
\* The step of the import that raises writes nothing on the destination and
\* leaves the run ended; an ended run takes no further step, and no call of the
\* link pass was made in it.
DestinationContent == <<gitlabIssues, gitlabMilestones, uploads, linkLog>>
FailureEndsRun ==
    /\ [](aborted => phase = "done" /\ stack = <<>> /\ linkQueue = <<>>
                        /\ linkLog = <<>>)
    /\ [][~aborted]_vars
    /\ [][(phase = "import" /\ aborted') => DestinationContent' = DestinationContent]_vars

\* A run ended by a failure after it had created an issue, with issues still
\* to import and a relation between two issues of the set to link.
RunEndedAfterFirstIssue ==
    /\ aborted /\ importAnswer # "none"
    /\ gitlabIssues # <<>>
    /\ Len(gitlabIssues) < NumIssues
    /\ \E i \in Ids : IssueRefs(i) \cap Ids # {}

\* C23: when the import loop has ended without a failure, the keys of the issue
\* mapping are exactly the ids of the issue list, every value is the iid of the
\* one destination issue created for the key, no id outside the list has an
\* entry or a destination issue, and the number of created issues is the
\* imported count.
ImportRan == phase \in {"link", "done"} /\ ~aborted /\ importAnswer \in {"y", "yes", "YES"}
MappingCoversIssueList ==
    ImportRan
    => /\ DOMAIN hash = Ids
       /\ \A i \in Ids : /\ hash[i] \in DOMAIN gitlabIssues
                         /\ gitlabIssues[hash[i]].src = i
       /\ \A g \in DOMAIN gitlabIssues : /\ gitlabIssues[g].src \in Ids
                                         /\ hash[gitlabIssues[g].src] = g
       /\ Len(gitlabIssues) = imported
       /\ imported = NumIssues

\* A completed import of a set with a reference to an id outside the list and
\* an issue that a descent imported before the loop came to it.
OutsideRefAndRevisitCompleted ==
    /\ ImportRan
    /\ \E i \in Ids : OutsideId \in IssueRefs(i)
    /\ skips # {}
====
